---- MODULE Spec2Model ----
(***************************************************************************)
(* Model of the energy-meter pipeline: ingest_csv_folder reads every CSV   *)
(* of a directory, reconciles the column names, coerces the cells, drops   *)
(* the invalid rows, tags the rows with a building and merges the files;   *)
(* the aggregation functions consume the merged frame.                     *)
(*                                                                         *)
(* Timestamps are hours since 2024-01-01 00:00 (a Monday).  A float is a   *)
(* record [k, v]: k = "num" (the integer v), "inf" or "nan".  A header is  *)
(* a sequence of one-character strings, so that strip() and lower() are    *)
(* computed and not assumed.                                               *)
(***************************************************************************)
EXTENDS Integers, Sequences, FiniteSets, TLC

VARIABLES dir_exists, files, pc, i, rows, bad_files, log, combined, out

vars == <<dir_exists, files, pc, i, rows, bad_files, log, combined, out>>

(* ------------------------------ bounds --------------------------------- *)

\* Total number of data rows over all the files of the directory.
MaxRows == 2

(* ------------------------------ helpers -------------------------------- *)

Range(s) == {s[j] : j \in 1..Len(s)}

Num(n) == [k |-> "num", v |-> n]
Inf == [k |-> "inf", v |-> 0]
NaN == [k |-> "nan", v |-> 0]

\* float addition on the modelled values (no negative infinity is modelled)
AddF(a, b) ==
    IF a.k = "nan" \/ b.k = "nan" THEN NaN
    ELSE IF a.k = "inf" \/ b.k = "inf" THEN Inf
    ELSE Num(a.v + b.v)

\* a < b on floats; every comparison with NaN is false
LtF(a, b) ==
    IF a.k = "nan" \/ b.k = "nan" THEN FALSE
    ELSE IF a.k = "inf" THEN FALSE
    ELSE IF b.k = "inf" THEN TRUE
    ELSE a.v < b.v

RECURSIVE SumF(_)
SumF(s) == IF s = <<>> THEN Num(0) ELSE AddF(s[1], SumF(Tail(s)))

(* ------------------------- header normalisation ------------------------ *)

UpperCase == <<"A","B","C","D","E","F","G","H","I","J","K","L","M",
               "N","O","P","Q","R","S","T","U","V","W","X","Y","Z">>
LowerCase == <<"a","b","c","d","e","f","g","h","i","j","k","l","m",
               "n","o","p","q","r","s","t","u","v","w","x","y","z">>

\* the lower-case letter of each upper-case letter
LowerOf ==
    [c \in Range(UpperCase) |->
        LowerCase[CHOOSE n \in 1..Len(UpperCase) : UpperCase[n] = c]]

LowerChar(c) == IF c \in DOMAIN LowerOf THEN LowerOf[c] ELSE c

\* lower() left out: the header is compared as written
lower_identity(s) == s

\* str.lower()
lower(s) == [j \in 1..Len(s) |-> LowerChar(s[j])]

\* str.strip(): leading and trailing blanks removed
RECURSIVE lstrip(_)
lstrip(s) == IF s # <<>> /\ s[1] = " " THEN lstrip(Tail(s)) ELSE s

RECURSIVE rstrip(_)
rstrip(s) ==
    IF s # <<>> /\ s[Len(s)] = " " THEN rstrip(SubSeq(s, 1, Len(s) - 1)) ELSE s

strip(s) == rstrip(lstrip(s))

S_timestamp == <<"t","i","m","e","s","t","a","m","p">>
S_time == <<"t","i","m","e">>
S_date == <<"d","a","t","e">>
S_kwh == <<"k","w","h">>
S_kw == <<"k","w">>
S_energy == <<"e","n","e","r","g","y">>
S_kWh == <<"k","W","h">>
S_Building == <<"B","u","i","l","d","i","n","g">>

TimeNames == {S_timestamp, S_time, S_date}
EnergyNames == {S_kwh, S_kw, S_energy}

\* the new name of column c under col_map (a column col_map lacks is kept)
col_map(c) ==
    LET lc == lower(strip(c))
    IN  IF lc \in EnergyNames THEN S_kWh
        ELSE IF lc \in TimeNames THEN S_timestamp
        ELSE c

\* df.rename(columns=col_map)
rename(cols) == [j \in 1..Len(cols) |-> col_map(cols[j])]

(* ---------------------------- cell parsing ----------------------------- *)

NaT == -1

\* pd.to_datetime(cell, errors="coerce")
to_datetime(cell) ==
    CASE cell = "2024-01-01 00:00" -> 0
      [] cell = "2024-01-01 12:00" -> 12
      [] cell = "2024-01-03 00:00" -> 48
      [] OTHER -> NaT

\* pd.to_numeric(cell, errors="coerce")
to_numeric(cell) ==
    CASE cell = "5" -> Num(5)
      [] cell = "10" -> Num(10)
      [] cell = "inf" -> Inf
      [] OTHER -> NaN

\* the row survives df.dropna(subset=["timestamp", "kWh"])
notna(r) == r.timestamp # NaT /\ r.kWh.k # "nan"

dropna(frame) == SelectSeq(frame, notna)

(* --------------------------- one file's body --------------------------- *)

HasCol(cols, c) == \E j \in 1..Len(cols) : cols[j] = c
ColIdx(cols, c) == CHOOSE j \in 1..Len(cols) : cols[j] = c
ColCount(cols, c) == Cardinality({j \in 1..Len(cols) : cols[j] = c})

\* the last value of the Building column taken instead of the first
building_name_last(f) ==
    IF HasCol(f.header, S_Building)
    THEN f.rows[Len(f.rows)][ColIdx(f.header, S_Building)]
    ELSE f.name

\* building_name: the first value of the Building column, else the stem
building_name(f) ==
    IF HasCol(f.header, S_Building)
    THEN f.rows[1][ColIdx(f.header, S_Building)]
    ELSE f.name

\* the three columns of the file's frame before dropna
parsed(f) ==
    LET cols == rename(f.header)
        t == ColIdx(cols, S_timestamp)
        e == ColIdx(cols, S_kWh)
    IN  [j \in 1..Len(f.rows) |->
            [timestamp |-> to_datetime(f.rows[j][t]),
             kWh |-> to_numeric(f.rows[j][e]),
             Building |-> building_name(f)]]

\* The body of the try block for one file: "error" when it raises (read_csv
\* fails, iloc[0] of an empty Building column, a duplicated column handed
\* to to_datetime / to_numeric), "missing" when a required column is
\* absent, otherwise "ok" with the cleaned frame.
clean_file(f) ==
    LET cols == rename(f.header)
    IN  IF ~f.readable THEN [status |-> "error", frame |-> <<>>]
        ELSE IF HasCol(f.header, S_Building) /\ f.rows = <<>>
        THEN [status |-> "error", frame |-> <<>>]
        ELSE IF ~HasCol(cols, S_timestamp) \/ ~HasCol(cols, S_kWh)
        THEN [status |-> "missing", frame |-> <<>>]
        ELSE IF ColCount(cols, S_timestamp) > 1 \/ ColCount(cols, S_kWh) > 1
        THEN [status |-> "error", frame |-> <<>>]
        ELSE [status |-> "ok", frame |-> dropna(parsed(f))]

(* ------------------------------- inputs -------------------------------- *)

H_Time == <<"T","I","M","E">>
H_Date == <<"D","a","t","e">>
H_PadTime == <<" ","t","i","m","e"," ">>
H_when == <<"w","h","e","n">>
H_KW == <<"K","W">>
H_Energy == <<"E","n","e","r","g","y">>
H_load == <<"l","o","a","d">>

ValidTs == {"2024-01-01 00:00", "2024-01-01 12:00", "2024-01-03 00:00"}
BldCells == {"Hall", "Lab"}

CanonicalHeader == <<S_timestamp, S_kWh>>
BuildingHeader == <<H_Date, S_Building, H_KW>>
TwoTimesHeader == <<H_Time, S_date, S_kWh>>

\* header rows that differ from the canonical one in the time column, in the
\* energy column or in both: synonyms, letter case, blanks, unknown names;
\* BuildingHeader adds a Building column, TwoTimesHeader a second time column
VariantHeaders ==
    {<<t, S_kWh>> : t \in {H_Time, H_Date, H_PadTime, H_when}}
    \cup {<<S_timestamp, e>> : e \in {H_KW, H_Energy, H_load}}
    \cup {<<H_Date, H_Energy>>}

Headers == {CanonicalHeader, BuildingHeader, TwoTimesHeader} \cup VariantHeaders

\* the data rows a file with header h may hold
CellsFor(h) ==
    IF h = CanonicalHeader
    THEN {<<t, e>> : t \in ValidTs, e \in {"5", "10"}}
         \cup {<<"n/a", "5">>, <<"2024-01-01 00:00", "abc">>, <<"2024-01-01 12:00", "inf">>}
    ELSE IF h = BuildingHeader
    THEN {<<t, b, "5">> : t \in {"2024-01-01 00:00", "n/a"}, b \in BldCells}
    ELSE IF h = TwoTimesHeader
    THEN {<<"2024-01-01 00:00", "2024-01-03 00:00", "5">>}
    ELSE {<<"2024-01-01 12:00", "10">>, <<"n/a", "inf">>}

Unreadable(name) ==
    [name |-> name, readable |-> FALSE, header |-> <<>>, rows |-> <<>>]

\* the files called name that hold n data rows
FilesWith(name, n) ==
    UNION {{[name |-> name, readable |-> TRUE, header |-> h, rows |-> rs] :
               rs \in [1..n -> CellsFor(h)]} : h \in Headers}
    \cup (IF n = 0 THEN {Unreadable(name)} ELSE {})

(* ------------------------------- frames -------------------------------- *)

NoFrame == [index |-> "", columns |-> <<>>, data |-> <<>>]

\* pd.DataFrame(columns=["timestamp","kWh","Building"]).set_index("timestamp")
EmptyFrame == [index |-> "timestamp", columns |-> <<"kWh", "Building">>, data |-> <<>>]

\* only the last file's frame kept
concat_last(frames) == frames[Len(frames)]

RECURSIVE concat(_)
concat(frames) ==
    IF frames = <<>> THEN <<>> ELSE frames[1] \o concat(Tail(frames))

IsSorted(s) == \A j \in 1..(Len(s) - 1) : s[j].timestamp <= s[j + 1].timestamp

\* the rows left in the order of concatenation
sort_values_unsorted(s) == {s}

\* the orders sort_values("timestamp") may leave the rows in: the default
\* sort is not stable, so rows of equal timestamp come in any order
sort_values(s) ==
    {t \in {[j \in 1..Len(s) |-> s[p[j]]] : p \in Permutations(1..Len(s))} : IsSorted(t)}

(* ------------------------------ ingestion ------------------------------ *)

\* the directory listing: no file, one file, or two files
Init ==
    /\ dir_exists \in BOOLEAN
    /\ \/ files = <<>>
       \/ /\ dir_exists
          /\ \E n \in 0..MaxRows : \E f \in FilesWith("A", n) : files = <<f>>
       \/ /\ dir_exists
          /\ \E n \in 0..MaxRows : \E m \in 0..(MaxRows - n) :
                \E f \in FilesWith("A", n) : \E g \in FilesWith("B", m) :
                   files = <<f, g>>
    /\ pc = "start"
    /\ i = 1
    /\ rows = <<>>
    /\ bad_files = <<>>
    /\ log = <<>>
    /\ combined = NoFrame
    /\ out = [fn |-> "", index |-> "", columns |-> <<>>, data |-> <<>>]

\* data_dir.exists() is false: FileNotFoundError
RaiseMissingDirectory ==
    /\ pc = "start" /\ ~dir_exists
    /\ pc' = "raised"
    /\ UNCHANGED <<dir_exists, files, i, rows, bad_files, log, combined, out>>

\* no CSV in the directory: a warning and the empty frame
NoFiles ==
    /\ pc = "start" /\ dir_exists /\ files = <<>>
    /\ log' = Append(log, [level |-> "warning", names |-> {}])
    /\ combined' = EmptyFrame
    /\ pc' = "returned"
    /\ UNCHANGED <<dir_exists, files, i, rows, bad_files, out>>

EnterLoop ==
    /\ pc = "start" /\ dir_exists /\ files # <<>>
    /\ pc' = "loop"
    /\ UNCHANGED <<dir_exists, files, i, rows, bad_files, log, combined, out>>

\* a file without the required columns passed over without being recorded
ProcessFile_unrecorded ==
    /\ pc = "loop" /\ i <= Len(files)
    /\ LET f == files[i]
           r == clean_file(f)
       IN  IF r.status = "ok"
           THEN /\ rows' = Append(rows, r.frame)
                /\ UNCHANGED <<bad_files, log>>
           ELSE IF r.status = "missing"
           THEN UNCHANGED <<rows, bad_files, log>>
           ELSE /\ bad_files' = Append(bad_files, f.name)
                /\ log' = Append(log, [level |-> "error", names |-> {f.name}])
                /\ UNCHANGED rows
    /\ i' = i + 1
    /\ UNCHANGED <<dir_exists, files, pc, combined, out>>

\* one iteration of "for f in files"
ProcessFile ==
    /\ pc = "loop" /\ i <= Len(files)
    /\ LET f == files[i]
           r == clean_file(f)
       IN  IF r.status = "ok"
           THEN /\ rows' = Append(rows, r.frame)
                /\ UNCHANGED <<bad_files, log>>
           ELSE /\ bad_files' = Append(bad_files, f.name)
                /\ log' = Append(log,
                      [level |-> IF r.status = "missing" THEN "warning" ELSE "error",
                       names |-> {f.name}])
                /\ UNCHANGED rows
    /\ i' = i + 1
    /\ UNCHANGED <<dir_exists, files, pc, combined, out>>

\* no file gave a frame: an error entry and the empty frame
NoValidData ==
    /\ pc = "loop" /\ i > Len(files) /\ rows = <<>>
    /\ log' = Append(log, [level |-> "error", names |-> {}])
    /\ combined' = EmptyFrame
    /\ pc' = "returned"
    /\ UNCHANGED <<dir_exists, files, i, rows, bad_files, out>>

\* concat, sort_values, set_index and the closing log entries
Combine ==
    /\ pc = "loop" /\ i > Len(files) /\ rows # <<>>
    /\ \E s \in sort_values(concat(rows)) :
          combined' = [index |-> "timestamp", columns |-> <<"kWh", "Building">>,
                       data |-> s]
    /\ log' = log \o <<[level |-> "info", names |-> {}]>>
                  \o (IF bad_files # <<>>
                      THEN <<[level |-> "info", names |-> Range(bad_files)]>>
                      ELSE <<>>)
    /\ pc' = "returned"
    /\ UNCHANGED <<dir_exists, files, i, rows, bad_files, out>>

(* ----------------------------- aggregation ----------------------------- *)

\* df.empty
empty(df) == df.data = <<>> \/ (df.columns = <<>> /\ df.index = "")

kWhOf(s) == [j \in 1..Len(s) |-> s[j].kWh]

day(t) == t \div 24
week(t) == day(t) \div 7

\* the first reading of the day only
onDay_first(s, d) ==
    LET all == SelectSeq(s, LAMBDA r : r.timestamp \div 24 = d)
    IN  IF all = <<>> THEN <<>> ELSE <<all[1]>>

onDay(s, d) == SelectSeq(s, LAMBDA r : day(r.timestamp) = d)
inWeek(s, w) == SelectSeq(s, LAMBDA r : week(r.timestamp) = w)
ofBuilding(s, b) == SelectSeq(s, LAMBDA r : r.Building = b)

MinOf(S) == CHOOSE x \in S : \A y \in S : x <= y
MaxOf(S) == CHOOSE x \in S : \A y \in S : y <= x

\* the name a column carries after df.rename(columns=m), m a set of pairs
renamed(c, m) == IF \E q \in m : q[1] = c THEN (CHOOSE q \in m : q[1] = c)[2] ELSE c

\* df.resample("D")["kWh"].sum(): one <<day, sum>> per day from the first
\* day with a reading to the last, the days without a reading included
calculate_daily_totals(df) ==
    IF empty(df)
    THEN [fn |-> "daily", index |-> "", columns |-> <<"kWh">>, data |-> <<>>]
    ELSE LET days == {day(df.data[j].timestamp) : j \in 1..Len(df.data)}
             d0 == MinOf(days)
             n == MaxOf(days) - d0 + 1
         IN  [fn |-> "daily", index |-> "date",
              columns |-> <<renamed("kWh", {<<"kWh", "daily_kWh">>})>>,
              data |-> [j \in 1..n |->
                          <<d0 + j - 1, SumF(kWhOf(onDay(df.data, d0 + j - 1)))>>]]

\* df.resample("W")["kWh"].sum(): one <<week_end, sum>> per week; week_end is
\* the day number of the Sunday that closes the week
calculate_weekly_aggregates(df) ==
    IF empty(df)
    THEN [fn |-> "weekly", index |-> "", columns |-> <<"kWh">>, data |-> <<>>]
    ELSE LET weeks == {week(df.data[j].timestamp) : j \in 1..Len(df.data)}
             w0 == MinOf(weeks)
             n == MaxOf(weeks) - w0 + 1
         IN  [fn |-> "weekly", index |-> "week_end",
              columns |-> <<renamed("kWh", {<<"kWh", "weekly_kWh">>})>>,
              data |-> [j \in 1..n |->
                          <<7 * (w0 + j - 1) + 6, SumF(kWhOf(inWeek(df.data, w0 + j - 1)))>>]]

\* round(3) of num/den, in thousandths, ties to even
round3(num, den) ==
    LET x == 1000 * num
        q == x \div den
        r == x % den
    IN  IF 2 * r < den THEN q
        ELSE IF 2 * r > den THEN q + 1
        ELSE IF q % 2 = 0 THEN q ELSE q + 1

minF(s) == s[CHOOSE j \in 1..Len(s) : \A n \in 1..Len(s) : ~LtF(s[n], s[j])]
maxF(s) == s[CHOOSE j \in 1..Len(s) : \A n \in 1..Len(s) : ~LtF(s[j], s[n])]

meanF(s) ==
    LET t == SumF(s)
    IN  IF t.k = "num" THEN Num(round3(t.v, Len(s))) ELSE t

scale3(x) == IF x.k = "num" THEN Num(1000 * x.v) ELSE x

SummaryRename ==
    {<<"mean", "mean_kWh">>, <<"min", "min_kWh">>, <<"max", "max_kWh">>,
     <<"sum", "total_kWh">>}

\* groupby("Building")["kWh"].agg([mean, min, max, sum]).round(3): for each
\* building the four values, in thousandths of a kWh
building_wise_summary(df) ==
    IF empty(df) \/ ~(\E j \in 1..Len(df.columns) : df.columns[j] = "Building")
    THEN [fn |-> "summary", index |-> "", columns |-> <<"mean", "min", "max", "sum">>,
          data |-> <<>>]
    ELSE LET bs == {df.data[j].Building : j \in 1..Len(df.data)}
             agg == <<"mean", "min", "max", "sum">>
         IN  [fn |-> "summary", index |-> "Building",
              columns |-> [j \in 1..Len(agg) |-> renamed(agg[j], SummaryRename)],
              data |-> [b \in bs |->
                  LET ks == kWhOf(ofBuilding(df.data, b))
                  IN  <<meanF(ks), scale3(minF(ks)), scale3(maxF(ks)), scale3(SumF(ks))>>]]

\* df["kWh"].idxmax(): the index label of the first row that holds the maximum
idxmax(s) ==
    LET isMax(j) == \A n \in 1..Len(s) : ~LtF(s[j].kWh, s[n].kWh)
        first == CHOOSE j \in 1..Len(s) : isMax(j) /\ \A n \in 1..(j - 1) : ~isMax(n)
    IN  s[first].timestamp

\* df.loc[idx, "kWh"]: the kWh of the rows whose index label is idx
loc(s, idx) == kWhOf(SelectSeq(s, LAMBDA r : r.timestamp = idx))

find_peak_time(df) ==
    IF empty(df)
    THEN [fn |-> "peak", index |-> "", columns |-> <<>>, data |-> <<>>]
    ELSE LET idx == idxmax(df.data)
             kwh_series == loc(df.data, idx)
         IN  [fn |-> "peak", index |-> "", columns |-> <<"timestamp", "kWh">>,
              data |-> <<idx, kwh_series[1]>>]

DailyTotals ==
    /\ pc = "returned"
    /\ out' = calculate_daily_totals(combined)
    /\ pc' = "analysed"
    /\ UNCHANGED <<dir_exists, files, i, rows, bad_files, log, combined>>

WeeklyAggregates ==
    /\ pc = "returned"
    /\ out' = calculate_weekly_aggregates(combined)
    /\ pc' = "analysed"
    /\ UNCHANGED <<dir_exists, files, i, rows, bad_files, log, combined>>

\* the summary of the ingested frame, or of that frame without its Building
\* column
BuildingSummary ==
    /\ pc = "returned"
    /\ \E cols \in {combined.columns, <<"kWh">>} :
          out' = building_wise_summary([combined EXCEPT !.columns = cols])
    /\ pc' = "analysed"
    /\ UNCHANGED <<dir_exists, files, i, rows, bad_files, log, combined>>

FindPeak ==
    /\ pc = "returned"
    /\ out' = find_peak_time(combined)
    /\ pc' = "analysed"
    /\ UNCHANGED <<dir_exists, files, i, rows, bad_files, log, combined>>

Next ==
    \/ RaiseMissingDirectory
    \/ NoFiles
    \/ EnterLoop
    \/ ProcessFile
    \/ NoValidData
    \/ Combine
    \/ DailyTotals
    \/ WeeklyAggregates
    \/ BuildingSummary
    \/ FindPeak

Spec == Init /\ [][Next]_vars

(* ------------------------- what the state records --------------------- *)

\* ingest_csv_folder has just returned combined
Returned == pc = "returned"

\* file k has been through the loop (the state after the return is the one
\* the aggregations start from; they leave the ingestion's variables alone)
Processed(k) == k \in 1..Len(files) /\ pc \in {"loop", "returned"} /\ k < i

\* file k is in the skipped-file list
Skipped(k) == files[k].name \in Range(bad_files)

\* the frame that file k, not skipped, added to rows
FrameOf(k) ==
    rows[k - Cardinality({j \in 1..(k - 1) : Skipped(j)})]

\* the rows file k contributed
Contribution(k) == IF Skipped(k) THEN <<>> ELSE FrameOf(k)

Count(s, r) == Cardinality({j \in 1..Len(s) : s[j] = r})

\* a file that lacks a required column after normalisation, or whose
\* processing raises
LacksColumn(f) ==
    LET cols == rename(f.header)
    IN  /\ f.readable
        /\ \/ \A j \in 1..Len(cols) : cols[j] # S_timestamp
           \/ \A j \in 1..Len(cols) : cols[j] # S_kWh

Raises(f) ==
    LET cols == rename(f.header)
    IN  \/ ~f.readable
        \/ (\E j \in 1..Len(f.header) : f.header[j] = S_Building) /\ f.rows = <<>>
        \/ /\ ~LacksColumn(f)
           /\ \E j, n \in 1..Len(cols) :
                 j # n /\ cols[j] = cols[n] /\ cols[j] \in {S_timestamp, S_kWh}

BadFile(f) == LacksColumn(f) \/ Raises(f)

(* -------------------------------- C1 ----------------------------------- *)

\* C1: every row of the returned dataset has a valid timestamp and a kWh
\* that is a finite, non-missing number.
C1_RowsValidAndFinite ==
    Returned =>
        \A j \in 1..Len(combined.data) :
            /\ combined.data[j].timestamp # NaT
            /\ combined.data[j].kWh.k = "num"

(* -------------------------------- C2 ----------------------------------- *)

\* C2: a file that lacks a required column or raises contributes no row, is
\* in the skipped-file list and does not abort ingestion: rows holds exactly
\* the frames of the other files, as if the bad file were absent.
C2_BadFileSkippedOnly ==
    (dir_exists /\ pc \in {"loop", "returned", "raised"}) =>
        LET done == SubSeq(files, 1, i - 1)
            good == SelectSeq(done, LAMBDA f : ~BadFile(f))
        IN  /\ pc # "raised"
            /\ \A k \in 1..Len(done) : BadFile(files[k]) => Skipped(k)
            /\ \A k \in 1..Len(done) : ~BadFile(files[k]) => ~Skipped(k)
            /\ rows = [j \in 1..Len(good) |-> dropna(parsed(good[j]))]
            /\ Returned =>
                  /\ Len(combined.data) = Len(concat(rows))
                  /\ \A r \in Range(combined.data) :
                        Count(combined.data, r) = Count(concat(rows), r)

\* C2 witness: one file of two was skipped and the other file's rows are in
\* the returned dataset
C2_Witness ==
    /\ Returned /\ Len(files) = 2
    /\ \E k \in 1..2 : LacksColumn(files[k])
    /\ combined.data # <<>>

(* -------------------------------- C3 ----------------------------------- *)

\* C3: on a non-empty dataset find_peak_time returns the timestamp and the
\* kWh of one row whose kWh is the maximum over all rows.
C3_PeakIsAMaximalRow ==
    (pc = "analysed" /\ out.fn = "peak" /\ combined.data # <<>>) =>
        \E j \in 1..Len(combined.data) :
            /\ combined.data[j].timestamp = out.data[1]
            /\ combined.data[j].kWh = out.data[2]
            /\ \A n \in 1..Len(combined.data) :
                  ~LtF(combined.data[j].kWh, combined.data[n].kWh)

(* -------------------------------- C4 ----------------------------------- *)

\* C4: on empty input each aggregation returns an empty result with the
\* column names of its non-empty result.
C4_EmptyResultKeepsColumns ==
    (pc = "analysed" /\ combined.data = <<>>) =>
        /\ out.data = <<>>
        /\ out.fn = "daily" => out.columns = <<"daily_kWh">>
        /\ out.fn = "weekly" => out.columns = <<"weekly_kWh">>
        /\ out.fn = "summary" =>
              out.columns = <<"mean_kWh", "min_kWh", "max_kWh", "total_kWh">>

(* -------------------------------- C5 ----------------------------------- *)

\* the spellings of the two headers that the claim ranges over
TimeSpellings == {S_timestamp, S_time, S_date, H_Time, H_Date}
EnergySpellings == {S_kWh, S_kwh, S_kw, S_energy, H_KW, H_Energy}

\* the file has one time column and one energy column
OneTimeOneEnergy(f) ==
    /\ f.readable
    /\ Cardinality({j \in 1..Len(f.header) : f.header[j] \in TimeSpellings}) = 1
    /\ Cardinality({j \in 1..Len(f.header) : f.header[j] \in EnergySpellings}) = 1

\* the same file with the canonical headers timestamp and kWh
Canonical(f) ==
    [f EXCEPT !.header =
        [j \in 1..Len(f.header) |->
            IF f.header[j] \in TimeSpellings THEN S_timestamp
            ELSE IF f.header[j] \in EnergySpellings THEN S_kWh
            ELSE f.header[j]]]

\* C5: a file whose time and energy headers are synonyms in any letter case
\* is skipped exactly when its canonical version is, and otherwise
\* contributes the rows its canonical version contributes.
C5_SynonymsAsCanonical ==
    \A k \in 1..Len(files) :
        (Processed(k) /\ OneTimeOneEnergy(files[k])) =>
            LET c == Canonical(files[k])
            IN  /\ Skipped(k) <=> Raises(c)
                /\ ~Skipped(k) => FrameOf(k) = dropna(parsed(c))

\* C5 witness: a file headed Date / Energy has contributed a row
C5_Witness ==
    \E k \in 1..Len(files) :
        /\ Processed(k) /\ files[k].header = <<H_Date, H_Energy>>
        /\ ~Skipped(k) /\ FrameOf(k) # <<>>

(* -------------------------------- C6 ----------------------------------- *)

\* the rows of the dataset returned for the directory that holds f alone
IngestAlone(f) == IF BadFile(f) THEN <<>> ELSE dropna(parsed(f))

\* C6: the dataset of a two-file directory is, as a collection of rows, the
\* union of the datasets of its two files ingested alone.
C6_MergeIsUnion ==
    (Returned /\ Len(files) = 2) =>
        LET a == IngestAlone(files[1])
            b == IngestAlone(files[2])
        IN  /\ Len(combined.data) = Len(a) + Len(b)
            /\ \A r \in Range(combined.data) \cup Range(a) \cup Range(b) :
                  Count(combined.data, r) = Count(a, r) + Count(b, r)

\* C6 witness: both files of the directory contributed a row
C6_Witness ==
    /\ Returned /\ Len(files) = 2
    /\ IngestAlone(files[1]) # <<>> /\ IngestAlone(files[2]) # <<>>

(* -------------------------------- C7 ----------------------------------- *)

\* C7: every surviving row of a file carries the first value of the file's
\* Building column, or the file's base name when it has no such column.
C7_OneBuildingPerFile ==
    \A k \in 1..Len(files) :
        (Processed(k) /\ ~Skipped(k)) =>
            LET f == files[k]
                cols == {j \in 1..Len(f.header) : f.header[j] = S_Building}
                want == IF cols = {} THEN f.name
                        ELSE f.rows[1][CHOOSE j \in cols : TRUE]
            IN  \A n \in 1..Len(FrameOf(k)) : FrameOf(k)[n].Building = want

\* C7 witness: the first row of a file with a Building column was dropped and
\* a later row with another Building value survived
C7_Witness ==
    \E k \in 1..Len(files) :
        /\ Processed(k) /\ ~Skipped(k)
        /\ files[k].header = BuildingHeader
        /\ Len(files[k].rows) > Len(FrameOf(k)) /\ FrameOf(k) # <<>>
        /\ files[k].rows[1][1] = "n/a"
        /\ \E n \in 1..Len(files[k].rows) : files[k].rows[n][2] # files[k].rows[1][2]

(* -------------------------------- C8 ----------------------------------- *)

\* C8: every file that is skipped, and every file from which rows were
\* dropped, is named by a log entry.
C8_EveryLossLogged ==
    Returned =>
        \A k \in 1..Len(files) :
            (Skipped(k) \/ Len(Contribution(k)) < Len(files[k].rows)) =>
                \E n \in 1..Len(log) : files[k].name \in log[n].names

(* -------------------------------- C9 ----------------------------------- *)

\* C9: the returned dataset is indexed by timestamp and ascending in it.
C9_SortedByTimestamp ==
    Returned =>
        /\ combined.index = "timestamp"
        /\ \A j \in 1..(Len(combined.data) - 1) :
              combined.data[j].timestamp <= combined.data[j + 1].timestamp

\* C9 witness: the concatenated rows were out of order and were returned
C9_Witness ==
    /\ Returned /\ Len(combined.data) >= 2
    /\ \E j \in 1..(Len(concat(rows)) - 1) :
          concat(rows)[j].timestamp > concat(rows)[j + 1].timestamp

(* -------------------------------- C10 ---------------------------------- *)

====
